---------------------------- MODULE Spec2Model ----------------------------
(* A model of the citation/reference conversion engine of paperlib,        *)
(* src/app/renderer/services/reference-service.ts (class ReferenceService). *)
(* Strings are sequences of one-character strings, so that split, trim,    *)
(* replace and the regular-expression scan are computed as the code        *)
(* computes them.                                                          *)
EXTENDS Integers, Sequences, FiniteSets, TLC

VARIABLES
    paper,      \* the PaperEntity handed to parseSingle
    csl,        \* the object parseSingle returned (<<>> before the call)
    cite,       \* cite.data of the Cite object handed to exportBibTexBody
    body,       \* the exportBibTexBody call made: its argument and result
    heap,       \* the caller's PaperEntity objects, by reference
    pref,       \* the preference service's store
    ret,        \* the call of the service that has just returned: its name,
                \* arguments and result, what it handed to the log service's
                \* error() and what it handed to clipboard.writeText
    disk,       \* the custom style directory: file name -> state of the file
    templates,  \* Cite.plugins.config.get("@csl").templates
    reads,      \* per style key, the number of readFileSync calls that returned
    pending     \* promises returned by async methods and not yet settled

vars == <<paper, csl, cite, body, heap, pref, ret, disk, templates, reads,
          pending>>

parseVars  == <<paper, csl>>
bibVars    == <<cite, body>>
callVars   == <<heap, pref, ret>>
styleVars  == <<disk, templates, reads, pending>>

\* An optional value is <<>> (none yet) or <<v>>.
NoValue   == <<>>
Undefined == "<undefined>"

-----------------------------------------------------------------------------
(* Bounds of the model.                                                    *)

MaxAuthorLen == 5
MaxTitleWords == 3
MaxTitleLen == 4
MaxEntries == 2
MaxPubType == 4
MaxPairs == 2
MaxRecords == 2
MaxPending == 1

-----------------------------------------------------------------------------
(* String primitives of the JavaScript runtime, on sequences of characters.*)

Concat(ss) ==
    LET RECURSIVE cat(_)
        cat(i) == IF i > Len(ss) THEN <<>> ELSE ss[i] \o cat(i + 1)
    IN cat(1)

\* String.prototype.indexOf(pat, from): 1-based position, 0 when absent.
IndexOf(s, pat, from) ==
    LET n == Len(pat)
        RECURSIVE scan(_)
        scan(i) == IF i + n - 1 > Len(s) THEN 0
                   ELSE IF SubSeq(s, i, i + n - 1) = pat THEN i
                   ELSE scan(i + 1)
    IN scan(from)

\* String.prototype.includes
Includes(s, c) == \E i \in 1..Len(s) : s[i] = c

\* String.prototype.split(sep) for a one-character separator: always at
\* least one piece, the empty string splits into one empty piece.
Split(s, sep) ==
    LET RECURSIVE go(_, _)
        go(i, cur) == IF i > Len(s) THEN <<cur>>
                      ELSE IF s[i] = sep THEN <<cur>> \o go(i + 1, <<>>)
                      ELSE go(i + 1, Append(cur, s[i]))
    IN go(1, <<>>)

\* Array.prototype.join(sep)
Join(parts, sep) ==
    LET RECURSIVE go(_)
        go(i) == IF i > Len(parts) THEN <<>>
                 ELSE IF i = Len(parts) THEN parts[i]
                 ELSE parts[i] \o sep \o go(i + 1)
    IN go(1)

WhiteSpace == {" ", "\t", "\n", "\r"}
LineTerminators == {"\n", "\r"}

\* String.prototype.trim
Trim(s) ==
    LET RECURSIVE first(_)
        first(i) == IF i > Len(s) THEN Len(s) + 1
                    ELSE IF s[i] \in WhiteSpace THEN first(i + 1) ELSE i
        RECURSIVE last(_)
        last(j) == IF j < 1 THEN 0
                   ELSE IF s[j] \in WhiteSpace THEN last(j - 1) ELSE j
    IN SubSeq(s, first(1), last(Len(s)))

UpperChars == <<"A","B","C","D","E","F","G","H","I","J","K","L","M",
                "N","O","P","Q","R","S","T","U","V","W","X","Y","Z">>
LowerChars == <<"a","b","c","d","e","f","g","h","i","j","k","l","m",
                "n","o","p","q","r","s","t","u","v","w","x","y","z">>

LowerChar(c) ==
    IF \E k \in 1..26 : UpperChars[k] = c
    THEN LowerChars[CHOOSE k \in 1..26 : UpperChars[k] = c]
    ELSE c

\* String.prototype.toLowerCase / toLocaleLowerCase
ToLowerCase(s) == [i \in 1..Len(s) |-> LowerChar(s[i])]

IsLetter(c) == \E k \in 1..26 : UpperChars[k] = c \/ LowerChars[k] = c

-----------------------------------------------------------------------------
(* parseSingle: the Entity -> Citation mapper with the author name parser, *)
(* the citation key derivation and the type mapping.                      *)

\* name => { given, family } of nameArray.map
ParseNameNoTrim(name) ==
    LET nameParts == Split(name, " ")
    IN  [given  |-> Join(SubSeq(nameParts, 1, Len(nameParts) - 1), <<" ">>),
         family |-> nameParts[Len(nameParts)]]

ParseName(name) ==
    LET nameParts == Split(Trim(name), " ")
    IN  [given  |-> Join(SubSeq(nameParts, 1, Len(nameParts) - 1), <<" ">>),
         family |-> nameParts[Len(nameParts)]]

\* the author string split on ";" when it includes one, on "," otherwise
NameArray(authors) ==
    LET tokens == IF Includes(authors, ";") THEN Split(authors, ";")
                  ELSE Split(authors, ",")
    IN  [i \in 1..Len(tokens) |-> ParseName(tokens[i])]

\* formatString({removeNewline, removeSymbol, removeWhite, trimWhite}) of
\* @/base/string: newlines, white space and symbols are stripped.
FormatString(str) ==
    LET RECURSIVE keep(_)
        keep(i) == IF i > Len(str) THEN <<>>
                   ELSE IF IsLetter(str[i]) THEN <<str[i]>> \o keep(i + 1)
                   ELSE keep(i + 1)
    IN keep(1)

\* the condition of the if statement in the loop over titleArray
StopWordTest(word) ==
    \/ ToLowerCase(word) # <<"t", "h", "e">>
    \/ ToLowerCase(word) # <<"a">>
    \/ ToLowerCase(word) # <<"a", "n">>
    \/ Len(word) <= 3

\* the loop over titleArray: the first word passing the test, then break
TitleFragment(title) ==
    LET titleArray == Split(title, " ")
        RECURSIVE scan(_)
        scan(i) == IF i > Len(titleArray) THEN <<>>
                   ELSE IF StopWordTest(titleArray[i])
                        THEN FormatString(ToLowerCase(titleArray[i]))
                        ELSE scan(i + 1)
    IN scan(1)

CiteKey(nameArray, pubTime, title) ==
    (IF Len(nameArray) >= 1 THEN ToLowerCase(nameArray[1].family) ELSE <<>>)
        \o pubTime \o TitleFragment(title)

TypeTable == <<"article", "paper-conference", "article", "book">>

\* ["article", "paper-conference", "article", "book"][pubType]: an index
\* outside the array, or an undefined one, reads undefined. A pubType is
\* <<n>> for the number n and <<>> when the record has none.
TypeOf(pubType) ==
    IF pubType # <<>> /\ pubType[1] \in 0..(Len(TypeTable) - 1)
    THEN TypeTable[pubType[1] + 1]
    ELSE Undefined

ParseSingle(p) ==
    LET nameArray == NameArray(p.authors)
    IN  [id              |-> p.id,
         type            |-> TypeOf(p.pubType),
         citation_key    |-> CiteKey(nameArray, p.pubTime, p.title),
         title           |-> p.title,
         author          |-> nameArray,
         issued          |-> p.pubTime,
         container_title |-> p.publication,
         publisher       |-> p.publisher,
         page            |-> p.pages,
         volume          |-> p.volume,
         issue           |-> p.number,
         DOI             |-> p.doi]

-----------------------------------------------------------------------------
(* Values of the variables a specification leaves alone.                   *)

SomePaper ==
    [id |-> "1", authors |-> <<"R", "e", "n">>, title |-> <<"x">>,
     pubTime |-> <<"2", "0">>, pubType |-> <<0>>, publication |-> "NeurIPS",
     publisher |-> "", pages |-> "", volume |-> "", number |-> "",
     doi |-> ""]

IdleParse == paper = SomePaper /\ csl = NoValue
IdleBib   == cite = <<>> /\ body = NoValue
IdleCall  ==
    /\ heap = <<>>
    /\ pref = [enableExportReplacement |-> FALSE,
               exportReplacement |-> [isArray |-> TRUE, items |-> <<>>],
               selectedCSLStyle |-> "apa",
               importedCSLStylesPath |-> ""]
    /\ ret = NoValue
IdleStyle == disk = <<>> /\ templates = <<>> /\ reads = <<>> /\ pending = <<>>

\* all strings over an alphabet, up to a length
StringsUpTo(alphabet, n) == UNION {[1..k -> alphabet] : k \in 0..n}

-----------------------------------------------------------------------------
(* The mapper applied to one record: parseSingle(paperEntityDraft).        *)

AuthorChars == {"a", "B", " ", ",", ";"}

TitleWordSet ==
    { <<"T", "h", "e">>, <<"a">>, <<"A", "n">>, <<"o", "f">>,
      <<"D", "e", "e", "p">>, <<"a", "b", "-", "c", "d">> }

TitlesOfWords ==
    { Join(ws, <<" ">>) : ws \in StringsUpTo(TitleWordSet, MaxTitleWords) }

PubTypes == {<<>>} \cup { <<n>> : n \in (0 - 1)..MaxPubType }

ParseSingleCall ==
    /\ csl = NoValue
    /\ csl' = <<ParseSingle(paper)>>
    /\ UNCHANGED <<paper, bibVars, callVars, styleVars>>

NextParse == ParseSingleCall

\* author strings of every shape, one title
InitNames ==
    /\ \E a \in StringsUpTo(AuthorChars, MaxAuthorLen) :
           paper = [SomePaper EXCEPT !.authors = a]
    /\ csl = NoValue
    /\ IdleBib /\ IdleCall /\ IdleStyle

SpecNames == InitNames /\ [][NextParse]_vars

\* titles of every word order, type codes of every kind, a few authors
InitMapper ==
    /\ \E a \in { <<>>, <<"R", "e", "n">>, <<"J", " ", "R", "e", "n", ",", "X", " ", "M", "a">> },
          t \in TitlesOfWords,
          y \in { <<>>, <<"2", "0", "2", "0">> },
          c \in PubTypes :
           paper = [SomePaper EXCEPT !.authors = a, !.title = t,
                                     !.pubTime = y, !.pubType = c]
    /\ csl = NoValue
    /\ IdleBib /\ IdleCall /\ IdleStyle

SpecMapper == InitMapper /\ [][NextParse]_vars

-----------------------------------------------------------------------------
(* Properties of the mapper.                                               *)

\* what the name parser is meant to compute, stated on positions
DelimiterOf(a) == IF \E i \in 1..Len(a) : a[i] = ";" THEN ";" ELSE ","

DelimPositions(a) == { i \in 1..Len(a) : a[i] = DelimiterOf(a) }

KthOf(S, k) == CHOOSE i \in S : Cardinality({ j \in S : j < i }) = k - 1

TokenAt(a, k) ==
    LET D  == DelimPositions(a)
        lo == IF k = 1 THEN 0 ELSE KthOf(D, k - 1)
        hi == IF k = Cardinality(D) + 1 THEN Len(a) + 1 ELSE KthOf(D, k)
    IN  SubSeq(a, lo + 1, hi - 1)

IsTrimOf(t, tok) ==
    \E i \in 1..(Len(tok) + 1), j \in 0..Len(tok) :
        /\ t = SubSeq(tok, i, j)
        /\ \A m \in 1..(i - 1) : tok[m] \in WhiteSpace
        /\ \A m \in (j + 1)..Len(tok) : tok[m] \in WhiteSpace
        /\ t = <<>> \/ (t[1] \notin WhiteSpace /\ t[Len(t)] \notin WhiteSpace)

NameOfToken(n, tok) ==
    \E i \in 1..(Len(tok) + 1), j \in 0..Len(tok) :
        LET t == SubSeq(tok, i, j)
        IN  /\ IsTrimOf(t, tok)
            /\ ~Includes(n.family, " ")
            /\ IF Includes(t, " ")
               THEN t = n.given \o <<" ">> \o n.family
               ELSE n.given = <<>> /\ n.family = t

\* C7: the author string is split on ";" when it contains one and on ","
\* otherwise; the k-th name comes from the k-th token, trimmed: family is
\* the piece after the last space, given is everything before that space,
\* and a token without a space gives an empty given and itself as family.
NameParserSplitsAndMaps ==
    csl # NoValue =>
        LET a == paper.authors
            names == csl[1].author
        IN  /\ Len(names) = Cardinality(DelimPositions(a)) + 1
            /\ \A k \in 1..Len(names) : NameOfToken(names[k], TokenAt(a, k))

\* a string with both delimiters, two names, one of them with a given name
NameParserWitness ==
    /\ csl # NoValue
    /\ Includes(paper.authors, ";") /\ Includes(paper.authors, ",")
    /\ Len(csl[1].author) = 2
    /\ \E k \in 1..2 : csl[1].author[k].given # <<>>
    /\ \E k \in 1..2 : csl[1].author[k].given = <<>> /\ csl[1].author[k].family # <<>>

IsSignificant(word) ==
    /\ ToLowerCase(word) \notin { <<"t", "h", "e">>, <<"a">>, <<"a", "n">> }
    /\ Len(word) > 3

\* C2: the citation key is the lowercased family name of the first author,
\* the year verbatim, and the normalized first title word that is neither
\* "the", "a" nor "an" and is longer than 3 characters.
CiteKeyUsesFirstSignificantWord ==
    csl # NoValue =>
        LET words == Split(paper.title, " ")
        IN  \A i \in 1..Len(words) :
                (IsSignificant(words[i]) /\ \A j \in 1..(i - 1) : ~IsSignificant(words[j]))
                => csl[1].citation_key =
                       ToLowerCase(csl[1].author[1].family) \o paper.pubTime
                           \o FormatString(ToLowerCase(words[i]))

CitationTypes == {"article", "paper-conference", "book"}

\* C10: whatever the type code, the type of the citation is one of the
\* citation types, and it is "article" for a code that is not recognized.
TypeInClosedSet ==
    csl # NoValue =>
        /\ csl[1].type \in CitationTypes
        /\ (paper.pubType = <<>> \/ paper.pubType[1] \notin 0..3)
               => csl[1].type = "article"

-----------------------------------------------------------------------------
(* exportBibTexBody: the math-preserving escape protocol.                  *)

\* title.match(/\$(.*?)\$/g): the matched substrings, left to right. A
\* match runs from a "$" to the next "$" with no line terminator between;
\* where that fails the scan resumes one character further.
MatchEnvs(title) ==
    LET RECURSIVE scan(_)
        scan(i) ==
            LET p == IndexOf(title, <<"$">>, i)
                q == IF p = 0 THEN 0 ELSE IndexOf(title, <<"$">>, p + 1)
            IN  IF p = 0 \/ q = 0 THEN <<>>
                ELSE IF \E m \in (p + 1)..(q - 1) : title[m] \in LineTerminators
                     THEN scan(p + 1)
                     ELSE <<SubSeq(title, p, q)>> \o scan(q + 1)
    IN scan(1)

\* GetSubstitution of String.prototype.replace for a string pattern: in the
\* replacement text "$$" stands for "$", "$&" for the matched text, "$`"
\* for the text before the match and "$'" for the text after it.
GetSubstitution(replacement, matched, before, after) ==
    LET RECURSIVE go(_)
        go(i) ==
            IF i > Len(replacement) THEN <<>>
            ELSE IF replacement[i] = "$" /\ i < Len(replacement)
                 THEN CASE replacement[i + 1] = "$" -> <<"$">> \o go(i + 2)
                        [] replacement[i + 1] = "&" -> matched \o go(i + 2)
                        [] replacement[i + 1] = "`" -> before \o go(i + 2)
                        [] replacement[i + 1] = "'" -> after \o go(i + 2)
                        [] OTHER -> <<"$">> \o go(i + 1)
                 ELSE <<replacement[i]>> \o go(i + 1)
    IN go(1)

\* String.prototype.replace(pattern, replacement), both strings: the first
\* occurrence only.
Replace(str, pattern, replacement) ==
    LET p == IndexOf(str, pattern, 1)
        before == SubSeq(str, 1, p - 1)
        after == SubSeq(str, p + Len(pattern), Len(str))
    IN  IF p = 0 THEN str
        ELSE before \o GetSubstitution(replacement, pattern, before, after) \o after

\* String.prototype.replaceAll(ch, replacement) for a one-character pattern
\* and a replacement without "$"
ReplaceAll(str, ch, replacement) ==
    LET RECURSIVE go(_)
        go(i) == IF i > Len(str) THEN <<>>
                 ELSE (IF str[i] = ch THEN replacement ELSE <<str[i]>>) \o go(i + 1)
    IN go(1)

EscapeLaTexString(str) ==
    ReplaceAll(ReplaceAll(ReplaceAll(str, "&", <<"\\", "&">>),
                          "%", <<"\\", "%">>),
               "#", <<"\\", "#">>)

\* the template literals `MATHENVDOLLAR{i}` and `{MATHENVDOLLAR}{i}`: they
\* hold no substitution, so they are the same text for every span
Placeholder ==
    <<"M","A","T","H","E","N","V","D","O","L","L","A","R","{","i","}">>
BracedPlaceholder ==
    <<"{","M","A","T","H","E","N","V","D","O","L","L","A","R","}","{","i","}">>

\* the inner loop over envs: each env replaced in the title by the token
HideEnvs(title, envs) ==
    LET RECURSIVE go(_, _)
        go(t, k) == IF k > Len(envs) THEN t
                    ELSE go(Replace(t, envs[k], Placeholder), k + 1)
    IN go(title, 1)

\* the first loop: cite.data after it, and mathEnvStrs
HiddenData(data) ==
    [i \in 1..Len(data) |->
        [data[i] EXCEPT !.title = HideEnvs(data[i].title, MatchEnvs(data[i].title))]]

MathEnvStrs(data) == Concat([i \in 1..Len(data) |-> MatchEnvs(data[i].title)])

\* cite.format("bibtex") of citation-js, as far as this service relies on
\* it: one entry per citation, the title between braces, passed through.
BibtexFormat(data) ==
    Concat([i \in 1..Len(data) |->
               <<"@", "{">> \o data[i].title \o <<"}", "\n">>])

\* the second loop: the tokens replaced by the spans, in order
RestoreEnvs(bibtexBody, mathEnvStrs) ==
    LET RECURSIVE go(_, _)
        go(b, k) ==
            IF k > Len(mathEnvStrs) THEN b
            ELSE go(Replace(Replace(b, Placeholder, mathEnvStrs[k]),
                            BracedPlaceholder, mathEnvStrs[k]),
                    k + 1)
    IN go(bibtexBody, 1)

BibTexBodyOf(data) ==
    RestoreEnvs(EscapeLaTexString(BibtexFormat(HiddenData(data))),
                MathEnvStrs(data))

ExportBibTexBody ==
    /\ body = NoValue
    /\ body' = <<[arg |-> cite, result |-> BibTexBodyOf(cite)]>>
    /\ cite' = HiddenData(cite)
    /\ UNCHANGED <<parseVars, callVars, styleVars>>

NextBib == ExportBibTexBody

TitleChars == {"$", "&", "x"}

CslOfTitle(t) == [title |-> t]

InitBib ==
    /\ \E ts \in StringsUpTo(StringsUpTo(TitleChars, MaxTitleLen), MaxEntries) :
           cite = [i \in 1..Len(ts) |-> CslOfTitle(ts[i])]
    /\ body = NoValue
    /\ IdleParse /\ IdleCall /\ IdleStyle

SpecBib == InitBib /\ [][NextBib]_vars

\* what the protocol is meant to give for one title: the spans verbatim,
\* every "&", "%" and "#" outside them behind a backslash
EscapedOutsideMath(title) ==
    LET RECURSIVE go(_)
        go(i) ==
            IF i > Len(title) THEN <<>>
            ELSE LET q == IF title[i] = "$" THEN IndexOf(title, <<"$">>, i + 1) ELSE 0
                 IN  IF q # 0 THEN SubSeq(title, i, q) \o go(q + 1)
                     ELSE IF title[i] \in {"&", "%", "#"}
                          THEN <<"\\", title[i]>> \o go(i + 1)
                          ELSE <<title[i]>> \o go(i + 1)
    IN go(1)

\* C1: in the body exportBibTexBody returns, every math span of every title
\* stands unchanged where it stood in the title, and every "&", "%" and
\* "#" outside the spans is escaped with a backslash.
MathSpansSurviveEscaping ==
    body # NoValue =>
        body[1].result =
            BibtexFormat([i \in 1..Len(body[1].arg) |->
                [title |-> EscapedOutsideMath(body[1].arg[i].title)]])

\* C11: a canonical citation is never mutated after it is created: after
\* exportBibTexBody has rendered a cite object, every citation it holds has
\* the fields, the title in particular, it had before the call, so that a
\* later render of the same object sees the original titles.
CitationsUnchangedByRender ==
    body # NoValue => cite = body[1].arg


-----------------------------------------------------------------------------
(* replacePublication and toCite, on the caller's objects.                 *)

\* The value of the preference "exportReplacement": an array of items, or a
\* value that is no array; an item is a { from, to } object, or null.
Pair(f, t) == [isObject |-> TRUE, from |-> f, to |-> t]
NullItem == [isObject |-> FALSE, from |-> "", to |-> ""]
NotAnArray == [isArray |-> FALSE, items |-> <<>>]

AbbreviateFailed == "Failed to abbreviate publication name."
ToCiteFailed == "Failed to convert paper entity to cite object."
BibTexKeyFailed == "Failed to convert cite object to BibTex Key."
BibTexBodyFailed == "Failed to convert cite object to BibTex string."
ExportFailed == "Failed to export paper entities."
LoadStylesFailed == "Failed to load CSL styles."
TemplateNotFound(key) ==
    IF key = "custom1" THEN "CSL template file: custom1.csl not found."
    ELSE "CSL template file: custom2.csl not found."

\* pubReplacement.map((item) => [item.from, item.to]) throws a TypeError on
\* a value without map and on a null item
PubMapThrows(config) ==
    \/ ~config.isArray
    \/ \E i \in 1..Len(config.items) : ~config.items[i].isObject

\* pubMap.has(key), pubMap.get(key): a later entry of the array replaces an
\* earlier one with the same key
PubMapHas(items, key) == \E i \in 1..Len(items) : items[i].from = key
PubMapGetFirst(items, key) ==
    items[CHOOSE i \in 1..Len(items) :
              /\ items[i].from = key
              /\ \A j \in 1..(i - 1) : items[j].from # key].to

PubMapGet(items, key) ==
    items[CHOOSE i \in 1..Len(items) :
              /\ items[i].from = key
              /\ \A j \in (i + 1)..Len(items) : items[j].from # key].to

\* the flag read by replacePublication
RewriteEnabledAlways(p) == TRUE

RewriteEnabled(p) == p.enableExportReplacement

\* replacePublication(source): the object after the call (it is the object
\* returned) and what was logged
ReplacePublicationOf(source, p) ==
    IF ~RewriteEnabled(p) THEN [source |-> source, logged |-> {}]
    ELSE IF PubMapThrows(p.exportReplacement)
         THEN [source |-> source, logged |-> {AbbreviateFailed}]
    ELSE IF PubMapHas(p.exportReplacement.items, source.publication)
         THEN [source |-> [source EXCEPT !.publication =
                              PubMapGet(p.exportReplacement.items, source.publication)],
               logged |-> {}]
    ELSE [source |-> source, logged |-> {}]

\* toCite(source) for an array of entities: every item goes through
\* replacePublication, then new Cite(...) maps them with parseMulti; when
\* the constructor throws, errorcatching logs and returns null.
ToCiteOf(entities, p, citeFails) ==
    LET outs == [i \in 1..Len(entities) |-> ReplacePublicationOf(entities[i], p)]
        after == [i \in 1..Len(entities) |-> outs[i].source]
        logged == UNION { outs[i].logged : i \in 1..Len(entities) }
    IN  IF citeFails
        THEN [sources |-> after, cite |-> NoValue,
              logged |-> logged \cup {ToCiteFailed}]
        ELSE [sources |-> after,
              cite |-> <<[i \in 1..Len(after) |-> ParseSingle(after[i])]>>,
              logged |-> logged]

\* the record of a call of the service; before is what the call started from
Call(op, args, before, result, logged, wrote, threw, fsOps) ==
    [op |-> op, args |-> args, before |-> before, result |-> result,
     logged |-> logged, wrote |-> wrote, threw |-> threw, fsOps |-> fsOps]

ReplacePublication(r) ==
    LET out == ReplacePublicationOf(heap[r], pref)
    IN  /\ heap' = [heap EXCEPT ![r] = out.source]
        /\ ret' = <<Call("replacePublication", <<r>>, heap, <<r>>, out.logged,
                         <<>>, FALSE, <<>>)>>
        /\ UNCHANGED <<pref, parseVars, bibVars, styleVars>>

ToCite(refs, citeFails) ==
    LET out == ToCiteOf([i \in 1..Len(refs) |-> heap[refs[i]]], pref, citeFails)
    IN  /\ heap' = [r \in DOMAIN heap |->
                       IF \E i \in 1..Len(refs) : refs[i] = r
                       THEN out.sources[CHOOSE i \in 1..Len(refs) : refs[i] = r]
                       ELSE heap[r]]
        /\ ret' = <<Call("toCite", refs, heap, out.cite, out.logged,
                         <<>>, FALSE, <<>>)>>
        /\ UNCHANGED <<pref, parseVars, bibVars, styleVars>>

-----------------------------------------------------------------------------
(* Styles: the built-in ones, the custom style directory, the template     *)
(* registry of the formatting delegate.                                    *)

BuiltinKeys == <<"apa", "vancouver", "harvard1">>

CSLStyles ==
    << [key |-> "apa", name |-> "American Psychological Association"],
       [key |-> "vancouver", name |-> "Vancouver"],
       [key |-> "harvard1", name |-> "Harvard1"] >>

\* ["apa", "vancouver", "harvard1"].includes(csl)
IsBuiltinNever(key) == FALSE

IsBuiltin(key) == \E i \in 1..Len(BuiltinKeys) : BuiltinKeys[i] = key

CustomKeys == {"custom1", "custom2"}
StyleKeys == {"apa", "vancouver", "harvard1"} \cup CustomKeys

\* the configured directory and the files a directory may hold
StylesDir == "/styles"
FileNames == {"custom1.csl", "custom2.csl", "notes.txt"}

\* path.join(importedCSLStylesPath, csl + ".csl"), as a file of the directory
TemplateFile(key) == IF key = "custom1" THEN "custom1.csl" ELSE "custom2.csl"

\* file.endsWith(".csl") and path.basename(filePath, ".csl")
EndsWithCsl(file) == file \in {"custom1.csl", "custom2.csl"}
Basename(file) ==
    CASE file = "custom1.csl" -> "custom1"
      [] file = "custom2.csl" -> "custom2"
      [] OTHER -> file

\* The state of a file: absent; a style file with a title (two contents);
\* a file readFileSync cannot read; a text the XML parser throws on; XML
\* without a style.info element; a style.info element without a title.
Absent == "absent"
GoodContents == {"v1", "v2"}
FileStates == {Absent, "v1", "v2", "unreadable", "badxml", "nostyle", "notitle"}

\* existsSync(templatePath)
ExistsSync(p, dsk, key) ==
    p.importedCSLStylesPath = StylesDir /\ dsk[TemplateFile(key)] # Absent

ReadThrows(state) == state = "unreadable"

\* the template the delegate knows under a built-in key
BuiltinTemplate(key) == <<"builtin", key>>
FileTemplate(content) == <<"file", content>>

\* cite.format("bibliography", { template }) of citation-js, as far as the
\* service relies on it: a text that depends on the template and the data
Bibliography(data, template) ==
    Concat([i \in 1..Len(data) |-> <<"[", template, "]">> \o data[i].title \o <<"\n">>])

\* the style used when the file of a custom key is missing
FallbackVancouver == "vancouver"

FallbackStyle == "apa"

\* config.templates.has(csl), for the decision to read the file
TemplatesHasNever(tpl, key) == FALSE

TemplatesHas(tpl, key) == key \in DOMAIN tpl

\* exportPlainText(cite): its file system calls, the registry and the read
\* counts after it, what it logged, and the promise it returned: rejected
\* (threw) or fulfilled with text. cite is <<data>>, or <<>> for null.
ExportPlainTextOf(citeArg, p, dsk, tpl, rds, renderFails) ==
    LET key == p.selectedCSLStyle
        formatThrows == citeArg = NoValue \/ renderFails
        data == IF citeArg = NoValue THEN <<>> ELSE citeArg[1]
        same == [templates |-> tpl, reads |-> rds]
    IN  IF IsBuiltin(key)
        THEN same @@ [fsOps |-> <<>>, logged |-> {}, threw |-> formatThrows,
                      text |-> Bibliography(data, BuiltinTemplate(key))]
        ELSE IF ExistsSync(p, dsk, key)
        THEN IF TemplatesHas(tpl, key)
             THEN same @@ [fsOps |-> <<"existsSync">>, logged |-> {},
                           threw |-> formatThrows,
                           text |-> Bibliography(data, tpl[key])]
             ELSE IF ReadThrows(dsk[TemplateFile(key)])
             THEN same @@ [fsOps |-> <<"existsSync", "readFileSync">>,
                           logged |-> {}, threw |-> TRUE, text |-> <<>>]
             ELSE LET template == FileTemplate(dsk[TemplateFile(key)])
                  IN  [templates |-> (key :> template) @@ tpl,
                       reads |-> [rds EXCEPT ![key] = @ + 1],
                       fsOps |-> <<"existsSync", "readFileSync">>,
                       logged |-> {}, threw |-> formatThrows,
                       text |-> Bibliography(data, template)]
        ELSE same @@ [fsOps |-> <<"existsSync">>,
                      logged |-> {TemplateNotFound(key)},
                      threw |-> formatThrows,
                      text |-> Bibliography(data, BuiltinTemplate(FallbackStyle))]

\* the descriptor parsePromise resolves to: <<>> for null
ParsedStyle(file, state) ==
    IF state = "nostyle" THEN <<>>
    ELSE <<[key |-> Basename(file),
            name |-> IF state = "notitle" THEN Undefined ELSE state]>>

\* parsePromise(filePath) rejects: readFileSync or xmlParser.parse threw
\* outside the try block
ParseRejects(state) == state \in {"unreadable", "badxml"}

\* loadCSLStyles(): files is what readdirSync returned, in its order
LoadCSLStylesOf(p, dsk, files) ==
    LET cslFiles == SelectSeq(files, EndsWithCsl)
        reads_ == [i \in 1..Len(cslFiles) |-> "readFileSync"]
    IN  IF p.importedCSLStylesPath = ""
        THEN [result |-> CSLStyles, logged |-> {}, fsOps |-> <<>>]
        ELSE IF p.importedCSLStylesPath # StylesDir
        THEN [result |-> <<>>, logged |-> {LoadStylesFailed},
              fsOps |-> <<"readdirSync">>]
        ELSE IF \E i \in 1..Len(cslFiles) : ParseRejects(dsk[cslFiles[i]])
        THEN [result |-> <<>>, logged |-> {LoadStylesFailed},
              fsOps |-> <<"readdirSync">> \o reads_]
        ELSE [result |-> CSLStyles \o
                         Concat([i \in 1..Len(cslFiles) |->
                                    ParsedStyle(cslFiles[i], dsk[cslFiles[i]])]),
              logged |-> {}, fsOps |-> <<"readdirSync">> \o reads_]

\* the orders readdirSync may list the files of the directory in
Listings(dsk) ==
    LET present == { f \in DOMAIN dsk : dsk[f] # Absent }
    IN  { l \in [1..Cardinality(present) -> present] :
            \A i, j \in DOMAIN l : i # j => l[i] # l[j] }

-----------------------------------------------------------------------------
(* export: the facade.                                                     *)

Formats == {"BibTex", "BibTex-Key", "PlainText", "Markdown"}
Renderers == {"BibTex", "BibTex-Key", "PlainText"}

\* new PaperEntity(paperEntity): the draft is a copy of the record
DeepCopy(entity) == entity

\* the "bibtex-key" output plugin
BibTexKeyOf(data) ==
    Join([i \in 1..Len(data) |-> data[i].citation_key], <<",", " ">>)

\* the failedReturn of the errorcatching decorators of exportBibTexKey and
\* exportBibTexBody: ""
RendererFallbackText == <<"?">>

RendererFallback == <<>>

\* export(paperEntities, format) up to its await, or to its end when it
\* does not reach one. entities are the caller's records.
ExportOf(entities, format, p, dsk, tpl, rds, copyFails, citeFails, renderFails) ==
    LET drafts == [i \in 1..Len(entities) |-> DeepCopy(entities[i])]
        tc == ToCiteOf(drafts, p, citeFails)
        rendererThrows == tc.cite = NoValue \/ renderFails
        pt == ExportPlainTextOf(tc.cite, p, dsk, tpl, rds, renderFails)
        none == [templates |-> tpl, reads |-> rds, awaits |-> FALSE,
                 rejected |-> FALSE, copyFailed |-> FALSE,
                 rewriteFailed |-> FALSE, mapFailed |-> FALSE,
                 renderFailed |-> FALSE]
        steps == [rewriteFailed |-> AbbreviateFailed \in tc.logged,
                  mapFailed |-> citeFails]
    IN  IF copyFails
        THEN [copyFailed |-> TRUE, logged |-> {ExportFailed},
              wrote |-> <<>>] @@ none
        ELSE IF format = "BibTex"
        THEN [logged |-> tc.logged \cup
                         (IF rendererThrows THEN {BibTexBodyFailed} ELSE {}),
              wrote |-> <<IF rendererThrows THEN RendererFallback
                          ELSE BibTexBodyOf(tc.cite[1])>>,
              renderFailed |-> rendererThrows] @@ steps @@ none
        ELSE IF format = "BibTex-Key"
        THEN [logged |-> tc.logged \cup
                         (IF rendererThrows THEN {BibTexKeyFailed} ELSE {}),
              wrote |-> <<IF rendererThrows THEN RendererFallback
                          ELSE BibTexKeyOf(tc.cite[1])>>,
              renderFailed |-> rendererThrows] @@ steps @@ none
        ELSE IF format = "PlainText"
        THEN [logged |-> tc.logged \cup pt.logged,
              wrote |-> IF pt.threw THEN <<>> ELSE <<pt.text>>,
              templates |-> pt.templates, reads |-> pt.reads,
              awaits |-> TRUE, rejected |-> pt.threw,
              renderFailed |-> pt.threw] @@ steps @@ none
        ELSE [logged |-> {}, wrote |-> <<<<>>>>] @@ none

\* what the environment makes of one call: nothing fails, a draft cannot be
\* built, the Cite constructor throws, or the formatting delegate throws
Failures == {"none", "copy", "cite", "render"}

ExportArgs(entities, format, out) ==
    [entities |-> entities, format |-> format, copyFailed |-> out.copyFailed,
     rewriteFailed |-> out.rewriteFailed, mapFailed |-> out.mapFailed,
     renderFailed |-> out.renderFailed]

\* the call of export, to its await (PlainText) or to its end
ExportCall(refs, format, failure) ==
    LET entities == [i \in 1..Len(refs) |-> heap[refs[i]]]
        out == ExportOf(entities, format, pref, disk, templates, reads,
                        failure = "copy", failure = "cite", failure = "render")
    IN  /\ out.awaits => Len(pending) < MaxPending
        /\ templates' = out.templates
        /\ reads' = out.reads
        /\ IF out.awaits
           THEN /\ pending' = Append(pending,
                        [args |-> ExportArgs(entities, format, out),
                         logged |-> out.logged,
                         rejected |-> out.rejected, wrote |-> out.wrote])
                /\ UNCHANGED ret
           ELSE /\ ret' = <<Call("export", ExportArgs(entities, format, out), <<>>,
                                 <<>>, out.logged, out.wrote, FALSE, <<>>)>>
                /\ UNCHANGED pending
        /\ UNCHANGED <<heap, pref, disk, parseVars, bibVars>>

\* export resumed after its await: the rejection is caught and logged by
\* errorcatching, the text of a fulfilled promise goes to the clipboard
ExportResume ==
    /\ pending # <<>>
    /\ LET e == Head(pending)
           logged == e.logged \cup (IF e.rejected THEN {ExportFailed} ELSE {})
       IN  ret' = <<Call("export", e.args, <<>>, <<>>, logged, e.wrote,
                            FALSE, <<>>)>>
    /\ pending' = Tail(pending)
    /\ UNCHANGED <<heap, pref, disk, templates, reads, parseVars, bibVars>>

-----------------------------------------------------------------------------
(* Direct calls of exportPlainText and loadCSLStyles, and the environment. *)

SomeCite == <<ParseSingle(SomePaper)>>

ExportPlainText(renderFails) ==
    LET out == ExportPlainTextOf(<<SomeCite>>, pref, disk, templates, reads,
                                 renderFails)
    IN  /\ templates' = out.templates
        /\ reads' = out.reads
        /\ ret' = <<Call("exportPlainText",
                         [style |-> pref.selectedCSLStyle, cite |-> <<SomeCite>>,
                          renderFails |-> renderFails,
                          existed |-> ExistsSync(pref, disk, pref.selectedCSLStyle),
                          cached |-> TemplatesHas(templates, pref.selectedCSLStyle)],
                         <<>>, IF out.threw THEN <<>> ELSE <<out.text>>,
                         out.logged, <<>>, out.threw, out.fsOps)>>
        /\ UNCHANGED <<heap, pref, disk, pending, parseVars, bibVars>>

LoadCSLStyles(files) ==
    LET out == LoadCSLStylesOf(pref, disk, files)
    IN  /\ ret' = <<Call("loadCSLStyles", files, [pref |-> pref, disk |-> disk], out.result,
                         out.logged, <<>>, FALSE, out.fsOps)>>
        /\ UNCHANGED <<heap, pref, styleVars, parseVars, bibVars>>

\* setPreference("selectedCSLStyle", value)
SetSelectedStyle(key) ==
    /\ pref.selectedCSLStyle # key
    /\ pref' = [pref EXCEPT !.selectedCSLStyle = key]
    /\ UNCHANGED <<heap, ret, styleVars,  parseVars, bibVars>>

\* the user puts a file into the style directory, or changes one
WriteStyleFile(file, content) ==
    /\ disk[file] # content
    /\ disk' = [disk EXCEPT ![file] = content]
    /\ UNCHANGED <<templates, reads, pending, callVars,  parseVars, bibVars>>

\* the user removes a file from the style directory
RemoveStyleFile(file) ==
    /\ disk[file] # Absent
    /\ disk' = [disk EXCEPT ![file] = Absent]
    /\ UNCHANGED <<templates, reads, pending, callVars,  parseVars, bibVars>>

-----------------------------------------------------------------------------
(* The specifications of the service.                                      *)

Refs == 1..MaxRecords
Venues == {"NeurIPS", "ICML", "arXiv"}
PairItems == { Pair(f, t) : f \in {"NeurIPS", "ICML"}, t \in {"ICML", "Conf. NeurIPS"} }
Configs ==
    {NotAnArray} \cup
    { [isArray |-> TRUE, items |-> items] :
        items \in StringsUpTo(PairItems \cup {NullItem}, MaxPairs) }

\* sequences of distinct references, the arrays a caller passes
RefArrays ==
    { a \in StringsUpTo(Refs, MaxRecords) :
        \A i, j \in DOMAIN a : i # j => a[i] # a[j] }

NoReads == [k \in CustomKeys |-> 0]

\* the arrays export is called with: the first records of the library
LibraryArrays == { [i \in 1..n |-> i] : n \in 0..MaxRecords }

\* the facade: a replacement table that is off, that matches, or that is
\* malformed; a built-in style, a custom style with its file, and one whose
\* file is missing
Init ==
    /\ heap = [r \in Refs |->
                  [SomePaper EXCEPT !.publication =
                      IF r = 1 THEN "NeurIPS" ELSE "arXiv"]]
    /\ \E rewriting \in { <<FALSE, <<Pair("NeurIPS", "Conf. NeurIPS")>> >>,
                          <<TRUE, <<Pair("NeurIPS", "Conf. NeurIPS")>> >>,
                          <<TRUE, <<NullItem>> >> },
          style \in {"apa", "custom1", "custom2"} :
           pref = [enableExportReplacement |-> rewriting[1],
                   exportReplacement |-> [isArray |-> TRUE, items |-> rewriting[2]],
                   selectedCSLStyle |-> style,
                   importedCSLStylesPath |-> StylesDir]
    /\ disk = [f \in FileNames |-> IF f = "custom1.csl" THEN "v1" ELSE Absent]
    /\ templates = <<>>
    /\ reads = NoReads
    /\ pending = <<>>
    /\ ret = NoValue
    /\ IdleParse /\ IdleBib

\* the caller takes the result of a call
Return ==
    /\ ret # NoValue
    /\ ret' = NoValue
    /\ UNCHANGED <<heap, pref, styleVars, parseVars, bibVars>>

\* The caller's code runs to completion: it calls the service when the call
\* before has returned; an export waiting at its await resumes in between.
Next ==
    \/ ret = NoValue /\ \E r \in Refs : ReplacePublication(r)
    \/ ret = NoValue /\ \E refs \in RefArrays, citeFails \in BOOLEAN :
                            ToCite(refs, citeFails)
    \/ ret = NoValue /\ \E refs \in LibraryArrays, format \in Formats,
                           failure \in Failures :
                            ExportCall(refs, format, failure)
    \/ ret = NoValue /\ ExportResume
    \/ Return

Spec == Init /\ [][Next]_vars

\* the rewriter: records and replacement tables of every shape
InitRewrite ==
    /\ \E venue \in [Refs -> Venues] :
           heap = [r \in Refs |-> [SomePaper EXCEPT !.publication = venue[r]]]
    /\ \E enabled \in BOOLEAN, config \in Configs :
           pref = [enableExportReplacement |-> enabled,
                   exportReplacement |-> config,
                   selectedCSLStyle |-> "apa",
                   importedCSLStylesPath |-> ""]
    /\ ret = NoValue
    /\ IdleStyle /\ IdleParse /\ IdleBib

NextRewrite == \E r \in Refs : ReplacePublication(r)

SpecRewrite == InitRewrite /\ [][NextRewrite]_vars

\* the plain-text renderer and the template registry, with the directory
\* and the selected style changing under them
InitStyles ==
    /\ \E style \in StyleKeys, dir \in {StylesDir} :
          pref = [enableExportReplacement |-> FALSE,
                  exportReplacement |-> [isArray |-> TRUE, items |-> <<>>],
                  selectedCSLStyle |-> style,
                  importedCSLStylesPath |-> dir]
    /\ \E d \in [FileNames -> {Absent, "v1", "unreadable"}] :
          d["notes.txt"] = Absent /\ disk = d
    /\ heap = <<>>
    /\ templates = <<>>
    /\ reads = NoReads
    /\ pending = <<>>
    /\ ret = NoValue
    /\ IdleParse /\ IdleBib

NextStyles ==
    \/ \E renderFails \in BOOLEAN : ExportPlainText(renderFails)
    \/ \E key \in StyleKeys : SetSelectedStyle(key)
    \/ \E key \in CustomKeys, content \in GoodContents :
           WriteStyleFile(TemplateFile(key), content)
    \/ \E key \in CustomKeys : RemoveStyleFile(TemplateFile(key))

SpecStyles == InitStyles /\ [][NextStyles]_vars

\* the style listing, over directories of every content
InitLoad ==
    /\ \E dir \in {StylesDir, "", "/gone"} :
          pref = [enableExportReplacement |-> FALSE,
                  exportReplacement |-> [isArray |-> TRUE, items |-> <<>>],
                  selectedCSLStyle |-> "apa",
                  importedCSLStylesPath |-> dir]
    /\ disk \in [FileNames -> FileStates]
    /\ heap = <<>>
    /\ templates = <<>>
    /\ reads = NoReads
    /\ pending = <<>>
    /\ ret = NoValue
    /\ IdleParse /\ IdleBib

NextLoad == \E files \in Listings(disk) : LoadCSLStyles(files)

SpecLoad == InitLoad /\ [][NextLoad]_vars

-----------------------------------------------------------------------------
(* Properties of the service.                                              *)

Returned(op) == ret # NoValue /\ ret[1].op = op

\* C8: replacePublication returns the record it was given, with the venue
\* replaced by the "to" of the pair whose "from" equals it when rewriting is
\* enabled and there is such a pair (the last such pair of the table), and
\* with the venue unchanged when the flag is off, no pair matches or the
\* table is malformed; no other field changes and no failure propagates.
RewriteOnlyOnExactMatch ==
    Returned("replacePublication") =>
        LET old == ret[1].before[ret[1].args[1]]
            new == heap[ret[1].result[1]]
            config == pref.exportReplacement
            items == config.items
            wellFormed == config.isArray
                            /\ \A i \in 1..Len(items) : items[i].isObject
            applies == /\ pref.enableExportReplacement
                       /\ wellFormed
                       /\ \E i \in 1..Len(items) : items[i].from = old.publication
        IN  /\ ~ret[1].threw
            /\ ret[1].result = ret[1].args
            /\ [new EXCEPT !.publication = old.publication] = old
            /\ IF applies
               THEN \E i \in 1..Len(items) :
                       /\ items[i].from = old.publication
                       /\ items[i].to = new.publication
                       /\ \A j \in (i + 1)..Len(items) : items[j].from # old.publication
               ELSE new.publication = old.publication
            /\ (pref.enableExportReplacement /\ ~wellFormed)
                  => AbbreviateFailed \in ret[1].logged

\* a venue rewritten through a table with two pairs for it
RewriteWitness ==
    /\ Returned("replacePublication")
    /\ pref.enableExportReplacement
    /\ Len(pref.exportReplacement.items) = 2
    /\ pref.exportReplacement.items[1].from = "NeurIPS"
    /\ pref.exportReplacement.items[2].from = "NeurIPS"
    /\ pref.exportReplacement.items[1].to # pref.exportReplacement.items[2].to
    /\ ret[1].before[ret[1].args[1]].publication = "NeurIPS"
    /\ heap[ret[1].result[1]].publication = pref.exportReplacement.items[2].to

\* C5: after replacePublication and toCite (and export, which hands them
\* drafts), every record of the caller has the field values it had before
\* the call.
CallerRecordsUntouched ==
    (Returned("replacePublication") \/ Returned("toCite"))
        => heap = ret[1].before

ExportFailedSomewhere ==
    /\ Returned("export")
    /\ \/ ret[1].args.copyFailed
       \/ ret[1].args.rewriteFailed
       \/ ret[1].args.mapFailed
       \/ ret[1].args.renderFailed

\* C4 as claimed: when the deep copy, the venue rewrite, the mapping or the
\* rendering fails, export does not propagate the failure, reports it to
\* the log service and writes nothing to the clipboard.
FailedExportWritesNothing ==
    ExportFailedSomewhere =>
        /\ ~ret[1].threw
        /\ ret[1].logged # {}
        /\ ret[1].wrote = <<>>

\* C4 as amended: a failed export never propagates the failure and always
\* reports it. It writes nothing when the deep copy fails and when mapping
\* or rendering fails in the PlainText format; it writes the empty string
\* when mapping or rendering fails in the BibTex and BibTex-Key formats; and
\* when only the venue rewrite fails it writes the text rendered from the
\* records with their venues unchanged.
FailedExportIsLoggedAndSuppressed ==
    ExportFailedSomewhere =>
        LET a == ret[1].args
            data == [i \in 1..Len(a.entities) |-> ParseSingle(a.entities[i])]
        IN  /\ ~ret[1].threw
            /\ ret[1].logged # {}
            /\ IF a.copyFailed THEN ret[1].wrote = <<>>
               ELSE IF a.renderFailed
               THEN ret[1].wrote = IF a.format = "PlainText" THEN <<>> ELSE << <<>> >>
               ELSE /\ ~a.mapFailed
                    /\ Len(ret[1].wrote) = 1
                    /\ CASE a.format = "BibTex" ->
                              ret[1].wrote[1] = BibTexBodyOf(data)
                         [] a.format = "BibTex-Key" ->
                              ret[1].wrote[1] = BibTexKeyOf(data)
                         [] OTHER ->
                              \E t \in { BuiltinTemplate(k) : k \in StyleKeys }
                                          \cup { FileTemplate(c) : c \in FileStates } :
                                  ret[1].wrote[1] = Bibliography(data, t)

\* an export to BibTex whose rendering failed, and the empty string written
FailedExportWitness ==
    /\ Returned("export")
    /\ ret[1].args.format = "BibTex"
    /\ ret[1].args.renderFailed
    /\ ~ret[1].args.mapFailed
    /\ Len(ret[1].args.entities) = 2
    /\ ret[1].wrote = << <<>> >>

\* C3: exportPlainText with a built-in style key makes no file system call;
\* with a custom key whose file does not exist it logs an error and returns
\* the text it returns for the same citations with the style apa.
BuiltinStylesSkipDiskAndMissingFallsBack ==
    Returned("exportPlainText") =>
        LET a == ret[1].args
            withApa == ExportPlainTextOf(a.cite,
                                         [pref EXCEPT !.selectedCSLStyle = "apa"],
                                         disk, templates, reads, a.renderFails)
        IN  /\ a.style \in {"apa", "vancouver", "harvard1"} => ret[1].fsOps = <<>>
            /\ (a.style \notin {"apa", "vancouver", "harvard1"} /\ ~a.existed)
                  => /\ TemplateNotFound(a.style) \in ret[1].logged
                     /\ ret[1].threw = withApa.threw
                     /\ ~ret[1].threw => ret[1].result = <<withApa.text>>

\* a custom key without its file, rendered
MissingStyleWitness ==
    /\ Returned("exportPlainText")
    /\ ret[1].args.style = "custom2"
    /\ ~ret[1].args.existed
    /\ ~ret[1].threw
    /\ ret[1].logged # {}
    /\ ret[1].fsOps = <<"existsSync">>

\* C9: the template of a custom key is read and put into the registry at
\* most once; an entry of the registry is never replaced or removed; and a
\* resolution of a key that is in the registry and whose file exists does
\* not read the file, it renders with the registered template.
TemplateLoadedOnce ==
    /\ [](\A k \in CustomKeys :
             /\ reads[k] <= 1
             /\ k \in DOMAIN templates <=> reads[k] = 1)
    /\ [][\A k \in DOMAIN templates :
             k \in DOMAIN templates' /\ templates'[k] = templates[k]]_vars
    /\ []((Returned("exportPlainText") /\ ret[1].args.cached /\ ret[1].args.existed)
             => /\ ret[1].fsOps = <<"existsSync">>
                /\ ~ret[1].threw =>
                      ret[1].result =
                          <<Bibliography(ret[1].args.cite[1],
                                         templates[ret[1].args.style])>>)

\* a cache hit after the file has changed on disk
StaleTemplateWitness ==
    /\ Returned("exportPlainText")
    /\ ret[1].args.cached /\ ret[1].args.existed
    /\ ~ret[1].threw
    /\ reads[ret[1].args.style] = 1
    /\ disk[TemplateFile(ret[1].args.style)] = "v2"
    /\ templates[ret[1].args.style] = FileTemplate("v1")

\* C6: with a style directory configured, loadCSLStyles returns the three
\* built-in descriptors first, then one descriptor for each style file that
\* was read and parsed; a file that cannot be read or parsed is left out
\* and takes nothing else with it.
ListingKeepsBuiltinsAndGoodFiles ==
    (Returned("loadCSLStyles") /\ pref.importedCSLStylesPath = StylesDir) =>
        LET res == ret[1].result
            rest == SubSeq(res, Len(CSLStyles) + 1, Len(res))
            listed == { rest[i].key : i \in 1..Len(rest) }
            good == { Basename(f) : f \in { g \in FileNames :
                          EndsWithCsl(g) /\ disk[g] \in GoodContents } }
            failing == { Basename(f) : f \in { g \in FileNames :
                          EndsWithCsl(g) /\ disk[g] \in {"unreadable", "badxml", "nostyle"} } }
        IN  /\ Len(res) >= Len(CSLStyles)
            /\ SubSeq(res, 1, Len(CSLStyles)) = CSLStyles
            /\ good \subseteq listed
            /\ listed \cap failing = {}
            /\ Cardinality(listed) = Len(rest)

=============================================================================
